---------------------------- MODULE Spec2Model ----------------------------
(***************************************************************************)
(* Model of the auctioneer HTTP client (client.go): the two operations     *)
(* RequestLRPAuctions / RequestTaskAuctions and the secure-first,          *)
(* insecure-fallback dispatch of doRequest.                                *)
(*                                                                         *)
(* A call blocks inside http.Client.Do, so a call is split at its two      *)
(* blocking points: Call (marshal, build the request), SecureDo (the       *)
(* first Do returns, doRequest decides, possibly the caller classifies)    *)
(* and InsecureDo (the fallback Do returns, the caller classifies).        *)
(* The network and the context are the environment: the outcome of a Do    *)
(* and the moment of a cancellation are nondeterministic.                  *)
(***************************************************************************)
EXTENDS Integers, Sequences, FiniteSets, TLC

\* ------------------------------------------------------------------ bounds
\* number of goroutines that may call the client concurrently
NumCalls == 2
\* longest batch handed to an operation
MaxBatch == 1

\* --------------------------------------------------------------- constants
StatusAccepted == 202

Calls == 1..NumCalls

\* the two operations of the Client interface
Ops == {"RequestLRPAuctions", "RequestTaskAuctions"}

\* elements of a batch: one that encoding/json can encode, one it cannot
Elems == {"req", "unsupported"}

RECURSIVE SeqsUpTo(_)
SeqsUpTo(n) ==
    IF n = 0 THEN {<< >>}
    ELSE LET shorter == SeqsUpTo(n - 1)
         IN  shorter \cup {Append(s, e) : s \in {t \in shorter : Len(t) = n - 1}, e \in Elems}

Batches == SeqsUpTo(MaxBatch)

\* status codes a server may answer with
Statuses == {200, 202, 500}

\* base addresses a client may be constructed with
URLs == {"https://auctioneer", "http://auctioneer", "://auctioneer"}

VARIABLES client, args, pc, ctx, req, events, result

vars == <<client, args, pc, ctx, req, events, result>>

\* --------------------------------------------------------------- helpers

\* net/url parsing of the base address, as done inside CreateRequest
ParseURL(u) ==
    CASE u = "https://auctioneer" -> [ok |-> TRUE, scheme |-> "https", host |-> "auctioneer"]
      [] u = "http://auctioneer"  -> [ok |-> TRUE, scheme |-> "http", host |-> "auctioneer"]
      [] OTHER                    -> [ok |-> FALSE, scheme |-> "", host |-> ""]

\* the route table
Routes ==
    [ CreateTaskAuctionsRoute |-> [method |-> "POST", path |-> "/v1/task_auctions"],
      CreateLRPAuctionsRoute  |-> [method |-> "POST", path |-> "/v1/lrp_auctions"] ]

\* the route name each operation passes to CreateRequest
RouteOf(op) ==
    IF op = "RequestLRPAuctions" THEN "CreateLRPAuctionsRoute" ELSE "CreateTaskAuctionsRoute"

\* json.Marshal fails on a value it does not support
MarshalIgnoresErr(batch) == FALSE
MarshalErr(batch) == \E i \in 1..Len(batch) : batch[i] = "unsupported"

\* json.Marshal of a slice: "[" elements separated by "," "]"
RECURSIVE Marshal(_)
Marshal(batch) ==
    IF Len(batch) = 0 THEN <<"[", "]">>
    ELSE IF Len(batch) = 1 THEN <<"[", batch[1], "]">>
    ELSE LET rest == Marshal(Tail(batch))
         IN  <<"[", batch[1], ",">> \o Tail(rest)

\* http.StatusText
StatusText(code) ==
    CASE code = 200 -> "OK"
      [] code = 202 -> "Accepted"
      [] code = 400 -> "Bad Request"
      [] code = 500 -> "Internal Server Error"
      [] OTHER      -> ""

\* results of a call
NoResult == [kind |-> "none"]
Success  == [kind |-> "nil"]
MarshalError == [kind |-> "marshal"]
RouteError   == [kind |-> "route"]
TransportError(t, cause) == [kind |-> "transport", from |-> t, cause |-> cause]
HTTPError(code) == [kind |-> "http", code |-> code, text |-> StatusText(code)]

NoReq == [made |-> FALSE]
NoArgs == [op |-> "", batch |-> << >>]

\* the clients the two constructors can return
NewClient(u) ==
    [ url |-> u, requireTLS |-> FALSE,
      httpClient |-> "httpClient", insecureHTTPClient |-> "nil" ]

NewSecureClient(u, requireTLS) ==
    [ url |-> u, requireTLS |-> requireTLS,
      httpClient |-> "httpClient", insecureHTTPClient |-> "insecureHTTPClient" ]

Clients ==
    {NewClient(u) : u \in URLs} \cup
    {NewSecureClient(u, r) : u \in URLs, r \in BOOLEAN}

\* what the body reader of a request still holds
Remaining(r) == SubSeq(r.body, r.off + 1, Len(r.body))

\* the outcomes of one http.Client.Do on request r under context state cx:
\*   a response with a status, or a transport-level error; the transport has
\*   read `read` elements of the body by then; `cancel` tells that the context
\*   was canceled while the attempt was in flight
Outcomes(r, cx) ==
    IF cx = "done"
    THEN {[err |-> TRUE, cause |-> "context canceled", status |-> 0, read |-> 0, cancel |-> FALSE]}
    ELSE {[err |-> FALSE, cause |-> "", status |-> s, read |-> Len(Remaining(r)), cancel |-> FALSE]
             : s \in Statuses}
         \cup
         {[err |-> TRUE, cause |-> "connection failed", status |-> 0, read |-> k, cancel |-> FALSE]
             : k \in 0..Len(Remaining(r))}
         \cup
         {[err |-> TRUE, cause |-> "context canceled", status |-> 0, read |-> k, cancel |-> TRUE]
             : k \in 0..Len(Remaining(r))}

\* the observable record of one Do
Attempt(t, r, o, cxAfter) ==
    [ type |-> "attempt", transport |-> t,
      method |-> r.method, scheme |-> r.scheme, host |-> r.host, path |-> r.path,
      header |-> r.header, body |-> Remaining(r),
      ctxDone |-> (cxAfter = "done"),
      err |-> o.err, cause |-> o.cause, status |-> o.status ]

LogError(msg, e) == [type |-> "log", msg |-> msg, err |-> e]

\* the transport of the first attempt
FirstTransport(cl) == cl.httpClient

\* doRequest: the condition under which the request is retried
FallbackIgnoresRequireTLS(cl, o) == o.err /\ cl.insecureHTTPClient # "nil"
FallbackOnBadStatus(cl, o) ==
    (o.err \/ o.status # StatusAccepted) /\ ~cl.requireTLS /\ cl.insecureHTTPClient # "nil"
FallbackOnAccepted(cl, o) ==
    (o.err \/ o.status = StatusAccepted) /\ ~cl.requireTLS /\ cl.insecureHTTPClient # "nil"
ShouldFallback(cl, o) ==
    o.err /\ ~cl.requireTLS /\ cl.insecureHTTPClient # "nil"

\* the caller's handling of what doRequest returned
ClassifyAnyResponseOK(t, o) ==
    IF o.err THEN TransportError(t, o.cause) ELSE Success
Classify(t, o) ==
    IF o.err THEN TransportError(t, o.cause)
    ELSE IF o.status # StatusAccepted THEN HTTPError(o.status)
    ELSE Success

\* what doRequest returns after a fallback: the outcome of the second Do
FallbackReturnsFirst(first, second) == first
FallbackResult(first, second) == second

\* req.URL.Scheme = "http" on the request of call c
SetSchemeShared(rq, c) ==
    [x \in Calls |-> IF rq[x].made THEN [rq[x] EXCEPT !.scheme = "http"] ELSE rq[x]]
SetScheme(rq, c) == [rq EXCEPT ![c].scheme = "http"]

\* after the fallback Do has returned, doRequest is over
RetryAgain(o) == IF o.err THEN "insecure" ELSE "done"
AfterInsecure(o) == "done"

\* --------------------------------------------------------------- state

Init ==
    /\ client \in Clients
    /\ args = [c \in Calls |-> NoArgs]
    /\ pc = [c \in Calls |-> "idle"]
    /\ ctx = [c \in Calls |-> "active"]
    /\ req = [c \in Calls |-> NoReq]
    /\ events = [c \in Calls |-> << >>]
    /\ result = [c \in Calls |-> NoResult]

\* the caller's context is canceled or its deadline passes
Cancel(c) ==
    /\ pc[c] # "done"
    /\ ctx[c] = "active"
    /\ ctx' = [ctx EXCEPT ![c] = "done"]
    /\ UNCHANGED <<client, args, pc, req, events, result>>

\* RequestLRPAuctions / RequestTaskAuctions up to the call of doRequest
Call(c, op, batch) ==
    /\ pc[c] = "idle"
    /\ args' = [args EXCEPT ![c] = [op |-> op, batch |-> batch]]
    /\ LET u == ParseURL(client.url)
           route == Routes[RouteOf(op)]
       IN  IF MarshalErr(batch)
           THEN /\ result' = [result EXCEPT ![c] = MarshalError]
                /\ pc' = [pc EXCEPT ![c] = "done"]
                /\ req' = req
           ELSE IF ~u.ok
           THEN /\ result' = [result EXCEPT ![c] = RouteError]
                /\ pc' = [pc EXCEPT ![c] = "done"]
                /\ req' = req
           ELSE /\ req' = [req EXCEPT ![c] =
                            [ made |-> TRUE, op |-> op,
                              method |-> route.method, scheme |-> u.scheme,
                              host |-> u.host, path |-> route.path,
                              header |-> { <<"Uber-Trace-Id", "span">>,
                                           <<"Content-Type", "application/json">> },
                              body |-> Marshal(batch), off |-> 0 ]]
                /\ pc' = [pc EXCEPT ![c] = "secure"]
                /\ result' = result
    /\ UNCHANGED <<client, ctx, events>>

\* c.httpClient.Do(req) returns with some outcome o; doRequest either falls
\* back (log, rewrite the scheme, start the second Do) or returns to the
\* caller, which classifies what it got
SecureDo(c) ==
    /\ pc[c] = "secure"
    /\ \E o \in Outcomes(req[c], ctx[c]) :
         LET cx == IF o.cancel THEN "done" ELSE ctx[c]
             t == FirstTransport(client)
             a == Attempt(t, req[c], o, cx)
             consumed == [req EXCEPT ![c].off = @ + o.read]
         IN  /\ ctx' = [ctx EXCEPT ![c] = cx]
             /\ IF ShouldFallback(client, o)
                THEN /\ events' = [events EXCEPT ![c] =
                                     @ \o <<a, LogError("retrying-on-http", TransportError(t, o.cause))>>]
                     /\ req' = SetScheme(consumed, c)
                     /\ pc' = [pc EXCEPT ![c] = "insecure"]
                     /\ result' = result
                ELSE /\ events' = [events EXCEPT ![c] = Append(@, a)]
                     /\ req' = consumed
                     /\ pc' = [pc EXCEPT ![c] = "done"]
                     /\ result' = [result EXCEPT ![c] = Classify(t, o)]
    /\ UNCHANGED <<client, args>>

\* c.insecureHTTPClient.Do(req) returns with some outcome o, doRequest
\* returns it and the caller classifies it
InsecureDo(c) ==
    /\ pc[c] = "insecure"
    /\ \E o \in Outcomes(req[c], ctx[c]) :
         LET cx == IF o.cancel THEN "done" ELSE ctx[c]
             t == client.insecureHTTPClient
             a == Attempt(t, req[c], o, cx)
             first == events[c][Len(events[c])].err
         IN  /\ ctx' = [ctx EXCEPT ![c] = cx]
             /\ events' = [events EXCEPT ![c] = Append(@, a)]
             /\ req' = [req EXCEPT ![c].off = @ + o.read]
             /\ pc' = [pc EXCEPT ![c] = AfterInsecure(o)]
             /\ result' = [result EXCEPT ![c] =
                             IF AfterInsecure(o) = "done"
                             THEN FallbackResult(first, Classify(t, o))
                             ELSE @]
    /\ UNCHANGED <<client, args>>

\* one caller, every batch
Next ==
    \/ \E op \in Ops, batch \in Batches : Call(1, op, batch)
    \/ SecureDo(1)
    \/ InsecureDo(1)
    \/ Cancel(1)

Spec == Init /\ [][Next]_vars

\* every caller concurrently, on the empty batch
NextConc ==
    \/ \E c \in Calls, op \in Ops : Call(c, op, << >>)
    \/ \E c \in Calls : SecureDo(c)
    \/ \E c \in Calls : InsecureDo(c)
    \/ \E c \in Calls : Cancel(c)

SpecConc == Init /\ [][NextConc]_vars

\* ------------------------------------------------------------ properties

\* the Do calls of call c, in order
Attempts(c) == SelectSeq(events[c], LAMBDA e : e.type = "attempt")

\* the client is one that falls back
CanFallback == ~client.requireTLS /\ client.insecureHTTPClient # "nil"

Accepted(a) == ~a.err /\ a.status = 202

\* C1: on a client with requireTLS = false and an insecure transport, a
\* transport-level failure of the secure attempt is followed by exactly one
\* attempt on the insecure transport; if that one answers 202 the call
\* succeeds, and if it fails too the caller gets the second failure.
C1_FallbackOnce ==
    \A c \in Calls :
        LET A == Attempts(c) IN
        (CanFallback /\ Len(A) >= 1 /\ A[1].err) =>
            /\ pc[c] \in {"insecure", "done"}
            /\ Len(A) <= 2
            /\ pc[c] = "insecure" => Len(A) = 1 /\ result[c] = NoResult
            /\ pc[c] = "done" =>
                 /\ Len(A) = 2
                 /\ A[2].transport = "insecureHTTPClient"
                 /\ Accepted(A[2]) => result[c] = Success
                 /\ A[2].err => result[c] = [kind |-> "transport",
                                             from |-> "insecureHTTPClient",
                                             cause |-> A[2].cause]

C1_Witness ==
    \E c \in Calls :
        LET A == Attempts(c) IN
        /\ CanFallback /\ pc[c] = "done" /\ Len(A) = 2
        /\ A[1].err /\ A[1].cause = "connection failed"
        /\ A[2].err /\ A[2].cause = "context canceled"
        /\ result[c].kind = "transport" /\ result[c].cause = "context canceled"

\* C2: a call whose context is canceled or expired before or during the
\* secure attempt returns an error and never performs the insecure attempt,
\* whatever the client configuration.
C2_NoFallbackAfterCancel ==
    \A c \in Calls :
        LET A == Attempts(c) IN
        (Len(A) >= 1 /\ A[1].ctxDone) =>
            /\ pc[c] = "done"
            /\ Len(A) = 1
            /\ result[c].kind = "transport"

\* C3: with requireTLS, or without an insecure transport, a transport-level
\* failure of the secure attempt is returned as it is: one attempt, none on
\* the insecure transport.
C3_NoFallbackWhenTLSRequired ==
    \A c \in Calls :
        LET A == Attempts(c) IN
        ((client.requireTLS \/ client.insecureHTTPClient = "nil") /\ Len(A) >= 1 /\ A[1].err) =>
            /\ pc[c] = "done"
            /\ Len(A) = 1
            /\ A[1].transport = "httpClient"
            /\ result[c] = [kind |-> "transport", from |-> "httpClient", cause |-> A[1].cause]

C3_Witness ==
    \E c \in Calls :
        /\ client.requireTLS /\ client.insecureHTTPClient = "insecureHTTPClient"
        /\ pc[c] = "done" /\ Len(Attempts(c)) = 1 /\ Attempts(c)[1].err
        /\ result[c].kind = "transport"

\* C4: a response of the secure attempt with a status other than 202 is never
\* followed by a fallback, whatever the configuration, and the call returns
\* an error carrying that status code and its text.
C4_BadStatusNoFallback ==
    \A c \in Calls :
        LET A == Attempts(c) IN
        (Len(A) >= 1 /\ ~A[1].err /\ A[1].status # 202) =>
            /\ pc[c] = "done"
            /\ Len(A) = 1
            /\ result[c].kind = "http"
            /\ result[c].code = A[1].status
            /\ A[1].status = 500 => result[c].text = "Internal Server Error"
            /\ A[1].status = 200 => result[c].text = "OK"

C4_Witness ==
    \E c \in Calls :
        /\ CanFallback /\ pc[c] = "done"
        /\ Len(Attempts(c)) = 1 /\ ~Attempts(c)[1].err /\ Attempts(c)[1].status = 500
        /\ result[c] = [kind |-> "http", code |-> 500, text |-> "Internal Server Error"]

\* C5: a 202 from the secure attempt makes the call return nil without any
\* use of the insecure transport, for both operations and every client.
C5_AcceptedNoFallback ==
    \A c \in Calls :
        LET A == Attempts(c) IN
        (Len(A) >= 1 /\ Accepted(A[1])) =>
            /\ pc[c] = "done"
            /\ result[c] = Success
            /\ Len(A) = 1
            /\ A[1].transport = "httpClient"

C5_Witness ==
    \E c \in Calls :
        /\ CanFallback /\ pc[c] = "done" /\ result[c] = Success
        /\ args[c].op = "RequestLRPAuctions"
        /\ Len(Attempts(c)) = 1 /\ Accepted(Attempts(c)[1])

\* C6: a call makes at most two attempts: the first on the secure transport,
\* the second, if any, on the insecure transport and only after the first
\* failed; never a third, never an insecure attempt first.
C6_AtMostTwoAttempts ==
    \A c \in Calls :
        LET A == Attempts(c) IN
        /\ Len(A) <= 2
        /\ Len(A) >= 1 => A[1].transport = "httpClient"
        /\ Len(A) = 2 => A[2].transport = "insecureHTTPClient" /\ A[1].err
        /\ pc[c] = "insecure" => Len(A) = 1 /\ A[1].err
        /\ pc[c] = "secure" => Len(A) = 0

C6_Witness ==
    \E c \in Calls :
        /\ pc[c] = "done" /\ Len(Attempts(c)) = 2
        /\ Attempts(c)[2].err

\* C7: the fallback attempt sends the request of the first attempt with only
\* the scheme changed to "http": same host, path, method, headers and the
\* full JSON body, whatever the first attempt had consumed of it.
C7_FallbackSameRequest ==
    \A c \in Calls :
        LET A == Attempts(c) IN
        Len(A) = 2 =>
            /\ A[2].scheme = "http"
            /\ A[2].host = A[1].host
            /\ A[2].path = A[1].path
            /\ A[2].method = A[1].method
            /\ A[2].header = A[1].header
            /\ A[2].body = A[1].body

\* C8: a call returns nil only if its last attempt answered 202; any other
\* outcome is an error; the only failure a successful call hides is a
\* transport failure of the first attempt, logged as "retrying-on-http"
\* before the retry that answered 202.
C8_SuccessOnlyOnAccepted ==
    \A c \in Calls :
        LET A == Attempts(c) IN
        /\ result[c] = Success =>
             /\ pc[c] = "done"
             /\ Len(A) >= 1
             /\ Accepted(A[Len(A)])
        /\ (pc[c] = "done" /\ ~(Len(A) >= 1 /\ Accepted(A[Len(A)]))) =>
             result[c].kind \in {"marshal", "route", "transport", "http"}
        /\ (result[c] = Success /\ \E i \in 1..Len(A) : ~Accepted(A[i])) =>
             /\ Len(A) = 2
             /\ A[1].err
             /\ Len(events[c]) = 3
             /\ events[c][1] = A[1]
             /\ events[c][2] = [type |-> "log", msg |-> "retrying-on-http",
                                err |-> [kind |-> "transport", from |-> "httpClient",
                                         cause |-> A[1].cause]]
             /\ events[c][3] = A[2]

C8_Witness ==
    \E c \in Calls :
        /\ pc[c] = "done" /\ result[c] = Success
        /\ Len(Attempts(c)) = 2 /\ Attempts(c)[1].err
        /\ events[c][2].type = "log"

\* the kind of result a call returns for its last attempt a
ResultKindOf(a) ==
    IF a.err THEN "transport" ELSE IF a.status = 202 THEN "nil" ELSE "http"

\* the attempts and the result of every call are those its own responses give
C9_OwnResponsesOnly ==
    \A c \in Calls :
        LET A == Attempts(c) IN
        /\ pc[c] = "secure" => req[c].scheme = ParseURL(client.url).scheme
        /\ Len(A) >= 1 => /\ A[1].scheme = ParseURL(client.url).scheme
                          /\ A[1].transport = client.httpClient
        /\ Len(A) = 2 => /\ A[2].scheme = "http"
                         /\ A[2].transport = client.insecureHTTPClient
        /\ (Len(A) = 2) <=> (Len(A) >= 1 /\ A[1].err /\ CanFallback /\ pc[c] = "done")
        /\ (pc[c] = "done" /\ Len(A) >= 1) =>
             /\ result[c].kind = ResultKindOf(A[Len(A)])
             /\ result[c].kind = "transport" =>
                  result[c].from = A[Len(A)].transport /\ result[c].cause = A[Len(A)].cause
             /\ result[c].kind = "http" => result[c].code = A[Len(A)].status

\* C9: calls running concurrently on one client leave its configuration
\* unchanged, and the attempts and the result of each call are those its own
\* responses determine: the scheme rewrite of one call's fallback is never
\* seen by another call's attempt.
C9_ConcurrentCallsIndependent ==
    [] C9_OwnResponsesOnly /\ [][client' = client]_vars

C9_Witness ==
    \E c, d \in Calls :
        /\ c # d
        /\ ParseURL(client.url).scheme = "https"
        /\ pc[c] = "insecure" /\ req[c].scheme = "http"
        /\ pc[d] = "secure" /\ req[d].scheme = "https"

\* C10: when the batch cannot be serialized or the route cannot be resolved
\* into a request, the call returns that error at once and makes no attempt
\* on either transport.
C10_NoAttemptOnBuildError ==
    \A c \in Calls :
        LET unsupported == \E i \in 1..Len(args[c].batch) : args[c].batch[i] = "unsupported"
            malformed == client.url \notin {"https://auctioneer", "http://auctioneer"}
        IN  (pc[c] # "idle" /\ (unsupported \/ malformed)) =>
                /\ pc[c] = "done"
                /\ events[c] = << >>
                /\ ~req[c].made
                /\ result[c] = IF unsupported THEN [kind |-> "marshal"] ELSE [kind |-> "route"]

C10_Witness ==
    \E c \in Calls :
        /\ pc[c] = "done" /\ result[c] = MarshalError
        /\ args[c].batch = <<"unsupported">>
        /\ events[c] = << >>

=============================================================================
